---- MODULE Spec2Model ----
(***************************************************************************)
(* State-machine model of terminal_snake (src/main.py): the main loop of    *)
(* main(), with wrap, update_snake, change_direction, get_random_pos,       *)
(* get_apple_pos and exit_game as operators.                                *)
(*                                                                          *)
(* A position is a pair <<x, y>>; a deque is a sequence whose element 1 is  *)
(* the head (Python index 0).                                               *)
(***************************************************************************)
EXTENDS Integers, Sequences, FiniteSets

VARIABLES
    snake,           \* main: the deque of cells, head first
    snake_head,      \* main: snake[0] as last read by the loop
    snake_body_set,  \* main: the auxiliary set of body cells
    apple,           \* main: the apple's position
    ate_apple,       \* main: the head landed on the apple in the last tick
    score,           \* main: apples eaten
    direction,       \* main: the heading
    key_pressed,     \* main: the key timedKey returned in the last tick
    timed_out,       \* main: timedKey returned without a key
    pc,              \* "loop" | "exit_quit" | "exit_collision"
    output,          \* what exit_game printed, <<>> while running
    fn_pos,          \* wrap under test: its pos argument
    fn_bound,        \* wrap under test: its bound argument
    fn_out,          \* wrap under test: its result
    fn_pc,           \* "idle" | "call" | "done"
    ap_new_pos,      \* get_apple_pos under test: its local new_pos
    ap_pc            \* get_apple_pos under test: "idle" | "call" | "loop" | "done"

vars == <<snake, snake_head, snake_body_set, apple, ate_apple, score, direction,
          key_pressed, timed_out, pc, output, fn_pos, fn_bound, fn_out, fn_pc,
          ap_new_pos, ap_pc>>

gameVars == <<snake, snake_head, snake_body_set, apple, ate_apple, score,
              direction, key_pressed, timed_out, pc, output>>

fnVars == <<fn_pos, fn_bound, fn_out, fn_pc>>

apVars == <<ap_new_pos, ap_pc>>

----------------------------------------------------------------------------
(* settings.MAP_WIDTH and settings.MAP_HEIGHT: the smallest board on which  *)
(* the start snake (x = 3..5) is inside the walls and the interior is at    *)
(* least 4 cells each way.                                                  *)
MAP_WIDTH == 7
MAP_HEIGHT == 6

(* The game is followed until the score reaches MaxScore. *)
MaxScore == 3

(* wrap is applied to bounds 4..MaxBound and positions -MaxOver..MaxBound+MaxOver. *)
MaxBound == 9
MaxOver == 2

----------------------------------------------------------------------------
(* class Directions *)
LEFT == <<-1, 0>>
RIGHT == <<1, 0>>
DOWN == <<0, 1>>
UP == <<0, -1>>

Dirs == {LEFT, RIGHT, DOWN, UP}

(* allowCharacters="wasdq"; "" stands for the key of a timed-out read *)
MoveKeys == {"w", "a", "s", "d"}

(* A variant of wrap whose upper test is off by one: the far wall is kept. *)
wrap_far_wall(pos, bound) ==
    IF pos <= 0 THEN bound - 2
    ELSE IF pos > bound - 1 THEN 1
    ELSE pos

(* A variant of wrap that re-enters on the near wall. *)
wrap_on_wall(pos, bound) ==
    IF pos <= 0 THEN bound - 1
    ELSE IF pos >= bound - 1 THEN 0
    ELSE pos

wrap(pos, bound) ==
    IF pos <= 0 THEN bound - 2
    ELSE IF pos >= bound - 1 THEN 1
    ELSE pos

(* A variant of update_snake that pops the tail on every call. *)
update_snake_always_pop(s, body, dir, ate) ==
    LET new_head_pos == <<wrap(s[1][1] + dir[1], MAP_WIDTH),
                          wrap(s[1][2] + dir[2], MAP_HEIGHT)>>
        s1 == <<new_head_pos>> \o s
        b1 == body \cup {s1[2]}
    IN  [snake |-> SubSeq(s1, 1, Len(s1) - 1),
         snake_body_set |-> b1 \ {s1[Len(s1)]}]

(* A variant of update_snake that wraps the y coordinate against the width. *)
update_snake_wrap_width(s, body, dir, ate) ==
    LET new_head_pos == <<wrap(s[1][1] + dir[1], MAP_WIDTH),
                          wrap(s[1][2] + dir[2], MAP_WIDTH)>>
        s1 == <<new_head_pos>> \o s
        b1 == body \cup {s1[2]}
    IN  IF ~ate
        THEN [snake |-> SubSeq(s1, 1, Len(s1) - 1),
              snake_body_set |-> b1 \ {s1[Len(s1)]}]
        ELSE [snake |-> s1, snake_body_set |-> b1]

(* A variant of update_snake that never pops the tail. *)
update_snake_never_pop(s, body, dir, ate) ==
    LET new_head_pos == <<wrap(s[1][1] + dir[1], MAP_WIDTH),
                          wrap(s[1][2] + dir[2], MAP_HEIGHT)>>
        s1 == <<new_head_pos>> \o s
        b1 == body \cup {s1[2]}
    IN  [snake |-> s1, snake_body_set |-> b1]

(* A variant of update_snake that adds snake[0], the new head, to the set. *)
update_snake_adds_head(s, body, dir, ate) ==
    LET new_head_pos == <<wrap(s[1][1] + dir[1], MAP_WIDTH),
                          wrap(s[1][2] + dir[2], MAP_HEIGHT)>>
        s1 == <<new_head_pos>> \o s
        b1 == body \cup {s1[1]}
    IN  IF ~ate
        THEN [snake |-> SubSeq(s1, 1, Len(s1) - 1),
              snake_body_set |-> b1 \ {s1[Len(s1)]}]
        ELSE [snake |-> s1, snake_body_set |-> b1]

(* update_snake mutates the deque and the set in place; here it returns both. *)
(* set.remove raises KeyError on a missing cell: the popped tail is always in *)
(* the set (see BodySetHoldsTail).                                            *)
update_snake(s, body, dir, ate) ==
    LET new_head_pos == <<wrap(s[1][1] + dir[1], MAP_WIDTH),
                          wrap(s[1][2] + dir[2], MAP_HEIGHT)>>
        s1 == <<new_head_pos>> \o s
        b1 == body \cup {s1[2]}
    IN  IF ~ate
        THEN [snake |-> SubSeq(s1, 1, Len(s1) - 1),
              snake_body_set |-> b1 \ {s1[Len(s1)]}]
        ELSE [snake |-> s1, snake_body_set |-> b1]

(* A variant of change_direction without the tests on the current heading. *)
change_direction_unguarded(current_dir, key) ==
    IF key = "w" THEN UP
    ELSE IF key = "s" THEN DOWN
    ELSE IF key = "a" THEN LEFT
    ELSE IF key = "d" THEN RIGHT
    ELSE current_dir

change_direction(current_dir, key) ==
    IF key = "w" /\ current_dir /= DOWN THEN UP
    ELSE IF key = "s" /\ current_dir /= UP THEN DOWN
    ELSE IF key = "a" /\ current_dir /= RIGHT THEN LEFT
    ELSE IF key = "d" /\ current_dir /= LEFT THEN RIGHT
    ELSE current_dir

(* The values get_random_pos can return: randrange(1, n - 1) is 1..n-2. *)
get_random_pos == (1 .. MAP_WIDTH - 2) \X (1 .. MAP_HEIGHT - 2)

(* get_apple_pos, line 156: the test of its while loop *)
apple_loop_test(pos, head, body) == pos /= head /\ pos \in body

(* The values get_apple_pos can return: a draw is returned as soon as the    *)
(* loop test "new_pos != snake_head and new_pos in snake_body_set" is false. *)
get_apple_pos(head, body) ==
    {new_pos \in get_random_pos : ~(new_pos /= head /\ new_pos \in body)}

(* A variant of the apple test that is true on every tick. *)
lands_on_apple_always(head, apple_pos) == TRUE

(* main, line 254 *)
lands_on_apple(head, apple_pos) == head = apple_pos

(* A variant of the score update that adds nothing. *)
score_after_eat_lost(sc) == sc

(* main, line 257 *)
score_after_eat(sc) == sc + 1

(* A variant of the collision test that is never true. *)
self_collision_never(head, body) == FALSE

(* main, line 259 *)
self_collision(head, body) == head \in body

(* A variant of exit_game that prints its default score. *)
exit_game_default(sc) == <<"you scored", 0>>

(* exit_game(score): the line it prints before raising SystemExit *)
exit_game(sc) == <<"you scored", sc>>

(* A loop that goes on after exit_game. *)
Running_after_exit == TRUE

(* The loop of main runs until exit_game raises SystemExit. *)
Running == pc = "loop"

----------------------------------------------------------------------------
StartSnake == << <<5, MAP_HEIGHT \div 2>>, <<4, MAP_HEIGHT \div 2>>,
                 <<3, MAP_HEIGHT \div 2>> >>

Cells(s) == {s[i] : i \in 1 .. Len(s)}

FnIdle ==
    /\ fn_pos = 0
    /\ fn_bound = 0
    /\ fn_out = 0
    /\ fn_pc = "idle"

ApIdle ==
    /\ ap_new_pos = <<0, 0>>
    /\ ap_pc = "idle"

Init ==
    /\ snake = StartSnake
    /\ snake_head = StartSnake[1]
    /\ snake_body_set = {StartSnake[i] : i \in 2 .. Len(StartSnake)}
    /\ apple \in get_apple_pos(StartSnake[1],
                               {StartSnake[i] : i \in 2 .. Len(StartSnake)})
    /\ ate_apple = FALSE
    /\ score = 0
    /\ direction = RIGHT
    /\ key_pressed = ""
    /\ timed_out = TRUE
    /\ pc = "loop"
    /\ output = <<>>
    /\ FnIdle
    /\ ApIdle

(* A variant of the quit branch that moves the snake before it exits. *)
Quit_after_move ==
    /\ Running
    /\ key_pressed' = "q"
    /\ timed_out' = FALSE
    /\ pc' = "exit_quit"
    /\ output' = exit_game(score)
    /\ LET u == update_snake(snake, snake_body_set, direction, ate_apple)
       IN  /\ snake' = u.snake
           /\ snake_body_set' = u.snake_body_set
           /\ snake_head' = u.snake[1]
    /\ UNCHANGED <<apple, ate_apple, score, direction, fnVars, apVars>>

(* One iteration of the loop in which 'q' is read: exit_game(score). *)
Quit ==
    /\ Running
    /\ key_pressed' = "q"
    /\ timed_out' = FALSE
    /\ pc' = "exit_quit"
    /\ output' = exit_game(score)
    /\ UNCHANGED <<snake, snake_head, snake_body_set, apple, ate_apple, score,
                   direction, fnVars, apVars>>

(* A variant of the loop body that moves the snake before it reads the key: *)
(* the new heading is only used by the next tick.                           *)
Tick_stale_heading(key, timeout) ==
    /\ Running
    /\ score < MaxScore
    /\ key_pressed' = key
    /\ timed_out' = timeout
    /\ LET dir == IF ~timeout THEN change_direction(direction, key) ELSE direction
           u == update_snake(snake, snake_body_set, direction, ate_apple)
           head == u.snake[1]
           eats == lands_on_apple(head, apple)
           sc == IF eats THEN score_after_eat(score) ELSE score
       IN  /\ direction' = dir
           /\ snake' = u.snake
           /\ snake_body_set' = u.snake_body_set
           /\ snake_head' = head
           /\ apple' \in IF eats THEN get_apple_pos(head, u.snake_body_set)
                         ELSE {apple}
           /\ ate_apple' = eats
           /\ score' = sc
           /\ IF self_collision(head, u.snake_body_set)
              THEN /\ pc' = "exit_collision"
                   /\ output' = exit_game(sc)
              ELSE /\ pc' = "loop"
                   /\ output' = output
    /\ UNCHANGED <<fnVars, apVars>>

(* One iteration of the loop in which key (or no key, on a timeout) is read. *)
Tick(key, timeout) ==
    /\ Running
    /\ score < MaxScore
    /\ key_pressed' = key
    /\ timed_out' = timeout
    /\ LET dir == IF ~timeout THEN change_direction(direction, key) ELSE direction
           u == update_snake(snake, snake_body_set, dir, ate_apple)
           head == u.snake[1]
           eats == lands_on_apple(head, apple)
           sc == IF eats THEN score_after_eat(score) ELSE score
       IN  /\ direction' = dir
           /\ snake' = u.snake
           /\ snake_body_set' = u.snake_body_set
           /\ snake_head' = head
           /\ apple' \in IF eats THEN get_apple_pos(head, u.snake_body_set)
                         ELSE {apple}
           /\ ate_apple' = eats
           /\ score' = sc
           /\ IF self_collision(head, u.snake_body_set)
              THEN /\ pc' = "exit_collision"
                   /\ output' = exit_game(sc)
              ELSE /\ pc' = "loop"
                   /\ output' = output
    /\ UNCHANGED <<fnVars, apVars>>

Next ==
    \/ Quit
    \/ \E key \in MoveKeys : Tick(key, FALSE)
    \/ Tick("", TRUE)

Spec == Init /\ [][Next]_vars

----------------------------------------------------------------------------
(* wrap as a function of its arguments: the arguments are drawn, then wrap  *)
(* is applied.                                                              *)
GameIdle ==
    /\ snake = StartSnake
    /\ snake_head = StartSnake[1]
    /\ snake_body_set = {StartSnake[i] : i \in 2 .. Len(StartSnake)}
    /\ apple = <<1, 1>>
    /\ ate_apple = FALSE
    /\ score = 0
    /\ direction = RIGHT
    /\ key_pressed = ""
    /\ timed_out = TRUE
    /\ pc = "loop"
    /\ output = <<>>

WrapInit ==
    /\ GameIdle
    /\ ApIdle
    /\ fn_bound \in 4 .. MaxBound
    /\ fn_pos \in (0 - MaxOver) .. (MaxBound + MaxOver)
    /\ fn_out = 0
    /\ fn_pc = "call"

WrapCall ==
    /\ fn_pc = "call"
    /\ fn_out' = wrap(fn_pos, fn_bound)
    /\ fn_pc' = "done"
    /\ UNCHANGED <<fn_pos, fn_bound, gameVars, apVars>>

WrapNext == WrapCall

WrapSpec == WrapInit /\ [][WrapNext]_vars

----------------------------------------------------------------------------
(* Vocabulary of the properties. *)

(* A step of the loop that is not the quit branch: update_snake has run. *)
TickStep == pc = "loop" /\ pc' /= "exit_quit"

Opposite(d) == <<0 - d[1], 0 - d[2]>>

(* The key that change_direction maps to heading d. *)
KeyOf(d) ==
    IF d = UP THEN "w"
    ELSE IF d = DOWN THEN "s"
    ELSE IF d = LEFT THEN "a"
    ELSE "d"

Interior == (1 .. MAP_WIDTH - 2) \X (1 .. MAP_HEIGHT - 2)

(* The popped tail is in the set, so set.remove never raises KeyError. *)
BodySetHoldsTail == pc = "loop" => snake[Len(snake)] \in snake_body_set

----------------------------------------------------------------------------
(* C1 (as stated): while the game runs, and so after every apple placement, *)
(* the apple is on no cell of the snake, the head included.                 *)
AppleOffSnake == pc = "loop" => apple \notin Cells(snake)

----------------------------------------------------------------------------
(* C2 (as stated): on a tick that does not end the game the snake is one    *)
(* longer when the head lands on the apple in that tick, and as long as     *)
(* before otherwise.                                                        *)
GrowthOnEatingTick ==
    [][TickStep /\ pc' = "loop" =>
          Len(snake') = Len(snake) + (IF snake'[1] = apple THEN 1 ELSE 0)]_vars

(* C2 (amended): on every tick the snake is one longer when the head landed *)
(* on the apple in the previous tick (ate_apple is set when the tick        *)
(* starts), and as long as before otherwise.                                *)
GrowthOnTickAfterEating ==
    [][TickStep =>
          Len(snake') = Len(snake) + (IF ate_apple THEN 1 ELSE 0)]_vars

(* C2 witness: the tick after the first apple was eaten has grown the snake. *)
GrownAfterEating ==
    /\ pc = "loop"
    /\ score = 1
    /\ ~ate_apple
    /\ Len(snake) = Len(StartSnake) + 1

----------------------------------------------------------------------------
(* C3 (as stated): a tick that ends in self-collision leaves the snake and  *)
(* the score as they were before the tick, and that score is reported.      *)
SnakeKeptOnCollision ==
    [][TickStep /\ pc' = "exit_collision" =>
          /\ snake' = snake
          /\ score' = score
          /\ output' = <<"you scored", score>>]_vars

(* C3 (amended): a tick that ends in self-collision has advanced the snake  *)
(* by one move (the colliding head is added at the front, the tail is       *)
(* removed unless growth was pending), and the score reported is the score  *)
(* before the tick, plus 1 when the colliding head landed on the apple.     *)
SnakeAdvancedOnCollision ==
    [][TickStep /\ pc' = "exit_collision" =>
          /\ Len(snake') = Len(snake) + (IF ate_apple THEN 1 ELSE 0)
          /\ \A i \in 2 .. Len(snake') : snake'[i] = snake[i - 1]
          /\ \E i \in 2 .. Len(snake') : snake'[1] = snake'[i]
          /\ score' = score + (IF snake'[1] = apple THEN 1 ELSE 0)
          /\ output' = <<"you scored", score'>>]_vars

(* C3 witness: the game ended by collision with the colliding head in the   *)
(* deque, on top of a body cell.                                            *)
CollidedHeadInSnake ==
    /\ pc = "exit_collision"
    /\ output = <<"you scored", score>>
    /\ \E i \in 2 .. Len(snake) : snake[i] = snake[1]

----------------------------------------------------------------------------
(* C4 (as stated): a tick ends the game by self-collision exactly when the  *)
(* candidate head equals a cell of the pre-move snake at index 3 or more.   *)
CollisionIffIndexAtLeast3 ==
    [][TickStep =>
          (pc' = "exit_collision" <=>
              \E i \in 4 .. Len(snake) : snake[i] = snake'[1])]_vars

(* C4 (amended): on a board whose interior is at least 4 cells each way, a  *)
(* tick ends the game by self-collision exactly when the candidate head     *)
(* equals a cell of the pre-move snake at index 3 or more that the move     *)
(* keeps: the pre-move tail does not count on a tick without pending        *)
(* growth, because it is popped before the test.                            *)
CollisionIffKeptIndexAtLeast3 ==
    [][TickStep =>
          (pc' = "exit_collision" <=>
              \E i \in 4 .. (Len(snake) - (IF ate_apple THEN 0 ELSE 1)) :
                  snake[i] = snake'[1])]_vars

(* C4 witness: the game ended with the head on the pre-move cell of index 3. *)
CollidedAtIndex3 ==
    /\ pc = "exit_collision"
    /\ Len(snake) >= 5
    /\ snake[1] = snake[5]

----------------------------------------------------------------------------
(* C5 (as stated): no tick both increments the score and ends the game by   *)
(* self-collision.                                                          *)
NoEatAndCollide ==
    [][~(TickStep /\ score' = score + 1 /\ pc' = "exit_collision")]_vars

----------------------------------------------------------------------------
(* C6: a key asking for the opposite of the heading leaves the heading as   *)
(* it is for that tick, and no tick turns the heading into its opposite.    *)
NoReversal ==
    [][TickStep =>
          /\ direction' /= Opposite(direction)
          /\ (~timed_out' /\ key_pressed' = KeyOf(Opposite(direction))
                => direction' = direction)]_vars

(* C6 witness: the last tick read the key of the opposite heading and the   *)
(* game went on with the heading unchanged.                                 *)
ReversalIgnored ==
    /\ pc = "loop"
    /\ ~timed_out
    /\ key_pressed = KeyOf(Opposite(direction))
    /\ snake /= StartSnake

----------------------------------------------------------------------------
(* C7: for a bound b >= 4, wrap sends every p <= 0 to b-2, every p >= b-1   *)
(* to 1 and every p in 1..b-2 to itself, so its result lies in 1..b-2.      *)
WrapCorrect ==
    fn_pc = "done" =>
        /\ (fn_pos <= 0 => fn_out = fn_bound - 2)
        /\ (fn_pos >= fn_bound - 1 => fn_out = 1)
        /\ (1 <= fn_pos /\ fn_pos <= fn_bound - 2 => fn_out = fn_pos)
        /\ fn_out \in 1 .. fn_bound - 2

(* C7 witness: wrap was applied to the far wall coordinate b-1 and gave 1. *)
WrappedFarWall ==
    /\ fn_pc = "done"
    /\ fn_pos = fn_bound - 1
    /\ fn_out = 1

----------------------------------------------------------------------------
(* C8: the score starts at 0 and each step adds exactly 1 to it when it is  *)
(* a tick whose head lands on the apple, and nothing otherwise.             *)
ScoreCountsApples ==
    /\ score = 0
    /\ [][score' = score + (IF TickStep /\ snake'[1] = apple THEN 1 ELSE 0)]_vars

(* C8 witness: two apples were eaten, the second in the last tick. *)
TwoApplesEaten ==
    /\ score = 2
    /\ ate_apple
    /\ pc = "loop"

----------------------------------------------------------------------------
(* C9: once the game has ended, by collision or by quit, no step changes    *)
(* the snake, the apple or the score, and the game stays ended.             *)
TerminatedAbsorbing ==
    [][pc /= "loop" =>
          /\ snake' = snake
          /\ apple' = apple
          /\ score' = score
          /\ pc' = pc]_vars

(* C9 witness: the game was quit after the snake had moved and eaten. *)
QuitAfterEating ==
    /\ pc = "exit_quit"
    /\ score > 0
    /\ snake /= StartSnake

----------------------------------------------------------------------------
(* C10: every snake cell and the apple lie in the playable interior         *)
(* [1, width-2] x [1, height-2], also after a move that wraps.              *)
InsideWalls ==
    /\ Cells(snake) \subseteq Interior
    /\ apple \in Interior

(* C10 witness: the head crossed the right edge and re-entered at x = 1. *)
WrappedAcrossRightEdge ==
    /\ Len(snake) >= 2
    /\ snake[1][1] = 1
    /\ snake[2][1] = MAP_WIDTH - 2

----------------------------------------------------------------------------
(* C11: whenever the game goes on after a tick, the snake has at least 3    *)
(* cells and no position occurs twice in it.                                *)
SnakeCellsDistinct ==
    pc = "loop" =>
        /\ Len(snake) >= 3
        /\ \A i, j \in 1 .. Len(snake) : i /= j => snake[i] /= snake[j]

(* C11 witness: the game goes on with a snake that has grown twice and has  *)
(* turned back next to its own body.                                        *)
LongSnakeRunning ==
    /\ pc = "loop"
    /\ Len(snake) = Len(StartSnake) + 2
    /\ snake[1][1] = snake[4][1]
    /\ snake[1][2] - snake[4][2] \in {1, -1}

----------------------------------------------------------------------------
(* C12 (as stated): on a tick that does not end the game the new head is    *)
(* the old head moved by the heading and wrapped, the rest is the old snake *)
(* shifted by one, and the old tail is dropped exactly when the head does   *)
(* not land on the apple in that tick.                                      *)
ShiftDropsTailUnlessEating ==
    [][TickStep /\ pc' = "loop" =>
          /\ snake'[1] = <<wrap(snake[1][1] + direction'[1], MAP_WIDTH),
                           wrap(snake[1][2] + direction'[2], MAP_HEIGHT)>>
          /\ Len(snake') = Len(snake) + (IF snake'[1] = apple THEN 1 ELSE 0)
          /\ \A i \in 2 .. Len(snake') : snake'[i] = snake[i - 1]]_vars

(* C12 (amended): on every tick the new head is the old head moved by the   *)
(* heading and wrapped, the rest is the old snake shifted by one, and the   *)
(* old tail is dropped exactly when no growth is pending, that is when the  *)
(* head did not land on the apple in the previous tick.                     *)
ShiftDropsTailUnlessPending ==
    [][TickStep =>
          /\ snake'[1] = <<wrap(snake[1][1] + direction'[1], MAP_WIDTH),
                           wrap(snake[1][2] + direction'[2], MAP_HEIGHT)>>
          /\ Len(snake') = Len(snake) + (IF ate_apple THEN 1 ELSE 0)
          /\ \A i \in 2 .. Len(snake') : snake'[i] = snake[i - 1]]_vars

(* C12 witness: the start snake has moved one cell to the right with no key *)
(* (on a board of width 7 the cell right of x = 5 is the wall, so the head    *)
(* re-enters at x = 1).                                                       *)
MovedRightOnce ==
    /\ pc = "loop"
    /\ timed_out
    /\ snake = << <<wrap(StartSnake[1][1] + 1, MAP_WIDTH), MAP_HEIGHT \div 2>>,
                  StartSnake[1], StartSnake[2] >>

----------------------------------------------------------------------------
(* The heading change_direction gives for key when it accepts it. *)
DirOf(key) ==
    IF key = "w" THEN UP
    ELSE IF key = "s" THEN DOWN
    ELSE IF key = "a" THEN LEFT
    ELSE RIGHT

(* C13: a key that is read in a tick and does not ask for the opposite of   *)
(* the heading becomes the heading, and that same tick moves the head by    *)
(* it; on a timeout or a rejected key the tick moves the head by the        *)
(* previous heading.                                                        *)
HeadingResolvedBeforeMove ==
    [][TickStep =>
          /\ direction' =
                IF ~timed_out' /\ DirOf(key_pressed') /= Opposite(direction)
                THEN DirOf(key_pressed')
                ELSE direction
          /\ snake'[1] = <<wrap(snake[1][1] + direction'[1], MAP_WIDTH),
                           wrap(snake[1][2] + direction'[2], MAP_HEIGHT)>>]_vars

(* C13 witness: the first tick read 'w' while heading right, and the head   *)
(* moved up in that tick.                                                   *)
TurnedUpAtOnce ==
    /\ pc = "loop"
    /\ ~timed_out
    /\ key_pressed = "w"
    /\ direction = UP
    /\ snake = << <<StartSnake[1][1], StartSnake[1][2] - 1>>,
                  StartSnake[1], StartSnake[2] >>

----------------------------------------------------------------------------
(* C14: on every tick in which the head does not land on the apple, the     *)
(* apple and the score are left as they were.                               *)
AppleKeptUnlessEaten ==
    [][TickStep /\ snake'[1] /= apple =>
          /\ apple' = apple
          /\ score' = score]_vars

(* C14 witness: the snake has moved, nothing was eaten and the apple lies   *)
(* off the snake, where it was placed at start.                             *)
MovedWithoutEating ==
    /\ pc = "loop"
    /\ score = 0
    /\ snake /= StartSnake
    /\ apple \notin Cells(snake)

----------------------------------------------------------------------------
(* C16: a tick that reads 'q' ends the game before any movement: the snake, *)
(* the apple and the score are those of the start of the tick, and the      *)
(* score reported is that score.                                            *)
QuitBeforeMove ==
    [][pc = "loop" /\ pc' = "exit_quit" =>
          /\ snake' = snake
          /\ snake_body_set' = snake_body_set
          /\ apple' = apple
          /\ score' = score
          /\ direction' = direction
          /\ output' = <<"you scored", score>>]_vars

(* C16 witness: 'q' was read in the tick after the second apple was eaten,  *)
(* with the growth still pending, and the score 2 was reported.             *)
QuitWithGrowthPending ==
    /\ pc = "exit_quit"
    /\ key_pressed = "q"
    /\ ate_apple
    /\ Len(snake) = Len(StartSnake) + 1
    /\ output = <<"you scored", 2>>

----------------------------------------------------------------------------
(* C17: between ticks of a running game the snake's length is 3 + score,    *)
(* minus 1 when the apple was eaten in the tick just completed.             *)
LengthFollowsScore ==
    pc = "loop" =>
        Len(snake) = 3 + score - (IF ate_apple THEN 1 ELSE 0)

(* C17 witness: the second apple was eaten in the last tick and the snake   *)
(* still has the length it had after the first growth.                      *)
SecondGrowthPending ==
    /\ pc = "loop"
    /\ ate_apple
    /\ score = 2
    /\ Len(snake) = 4

----------------------------------------------------------------------------
(* C18: the body set is exactly the set of the snake's cells behind the     *)
(* head, after initialisation and after every update_snake (so no cell      *)
(* still occupied by a body segment is ever removed); it does not contain   *)
(* the head while the game goes on.                                         *)
BodySetMirrorsDeque ==
    /\ snake_body_set = {snake[i] : i \in 2 .. Len(snake)}
    /\ snake_head = snake[1]
    /\ pc = "loop" => snake[1] \notin snake_body_set

(* C18 witness: a snake of 4 cells coiled in a 2 x 2 block, its head next    *)
(* to its tail, goes on; the set holds the three cells behind the head.     *)
CoiledSnakeMirrored ==
    /\ pc = "loop"
    /\ Len(snake) = 4
    /\ Cardinality({snake[i][1] : i \in 1 .. 4}) = 2
    /\ Cardinality({snake[i][2] : i \in 1 .. 4}) = 2
    /\ snake_body_set = {snake[2], snake[3], snake[4]}
    /\ snake[1] \notin snake_body_set

----------------------------------------------------------------------------
(* get_apple_pos step by step: the first draw, then one action for each     *)
(* iteration of "while test: new_pos = get_random_pos()" and one for the    *)
(* exit of the loop. The snake it is called on is drawn from the snakes     *)
(* that occupy snakeLen consecutive interior cells (in row order, wrapping  *)
(* at the end), from a single cell up to the whole interior.                *)
InteriorSize == (MAP_WIDTH - 2) * (MAP_HEIGHT - 2)

CellAt(n) == <<1 + (n % (MAP_WIDTH - 2)), 1 + (n \div (MAP_WIDTH - 2))>>

SnakeFrom(first, snakeLen) ==
    [i \in 1 .. snakeLen |-> CellAt((first + i - 1) % InteriorSize)]

AppleInit ==
    /\ \E first \in 0 .. InteriorSize - 1 :
         \E snakeLen \in 1 .. InteriorSize :
            /\ snake = SnakeFrom(first, snakeLen)
            /\ snake_head = SnakeFrom(first, snakeLen)[1]
            /\ snake_body_set =
                  {SnakeFrom(first, snakeLen)[i] : i \in 2 .. snakeLen}
    /\ apple = <<0, 0>>
    /\ ate_apple = FALSE
    /\ score = 0
    /\ direction = RIGHT
    /\ key_pressed = ""
    /\ timed_out = TRUE
    /\ pc = "loop"
    /\ output = <<>>
    /\ FnIdle
    /\ ap_new_pos = <<0, 0>>
    /\ ap_pc = "call"

(* line 155: new_pos = get_random_pos() *)
AppleFirstDraw ==
    /\ ap_pc = "call"
    /\ ap_new_pos' \in get_random_pos
    /\ ap_pc' = "loop"
    /\ UNCHANGED <<gameVars, fnVars>>

(* A variant of the loop body that throws its draw away. *)
AppleRedraw_discarded(c) ==
    /\ ap_pc = "loop"
    /\ apple_loop_test(ap_new_pos, snake_head, snake_body_set)
    /\ UNCHANGED vars

(* lines 156-157: the test holds and the body draws c *)
AppleRedraw(c) ==
    /\ ap_pc = "loop"
    /\ apple_loop_test(ap_new_pos, snake_head, snake_body_set)
    /\ ap_new_pos' = c
    /\ UNCHANGED <<gameVars, fnVars, ap_pc>>

(* lines 156, 158: the test fails, new_pos is returned and becomes the apple *)
AppleReturn ==
    /\ ap_pc = "loop"
    /\ ~apple_loop_test(ap_new_pos, snake_head, snake_body_set)
    /\ apple' = ap_new_pos
    /\ ap_pc' = "done"
    /\ UNCHANGED <<snake, snake_head, snake_body_set, ate_apple, score,
                   direction, key_pressed, timed_out, pc, output, fnVars,
                   ap_new_pos>>

AppleNext ==
    \/ AppleFirstDraw
    \/ \E c \in get_random_pos : AppleRedraw(c)
    \/ AppleReturn

(* The function runs on, and every interior cell that the loop can draw is  *)
(* drawn again and again (fair random draws).                               *)
AppleFair ==
    /\ WF_vars(AppleFirstDraw)
    /\ WF_vars(AppleReturn)
    /\ \A c \in get_random_pos : WF_vars(AppleRedraw(c))

AppleSpec == AppleInit /\ [][AppleNext]_vars /\ AppleFair

(* What the loop returns is what get_apple_pos (the set of its results) says. *)
AppleReturnsResult ==
    ap_pc = "done" => apple \in get_apple_pos(snake_head, snake_body_set)

----------------------------------------------------------------------------
(* C15: when the snake occupies fewer cells than the interior has, the      *)
(* draw-and-retry loop of get_apple_pos eventually returns a position,      *)
(* every interior cell being drawn again and again.                         *)
ApplePlacementTerminates ==
    (ap_pc = "call" /\ Len(snake) < InteriorSize) ~> (ap_pc = "done")

(* C15 witness: on a board with a single free cell, get_apple_pos returned  *)
(* that cell.                                                               *)
LastFreeCellReturned ==
    /\ ap_pc = "done"
    /\ Len(snake) = InteriorSize - 1
    /\ apple = ap_new_pos
    /\ apple \notin Cells(snake)

====
